---- MODULE Spec2Model ----
(***************************************************************************)
(* A model of the trends_library content pipeline:                         *)
(*   scripts/generate_html.py   the static-site fallback pipeline          *)
(*   image_creator/creator.py   the image generator and its alt-text       *)
(*   celery_app.py              the two queue jobs                         *)
(*   server/main.py             the request gateway                        *)
(* Python strings are TLA+ strings; one character is a string of length 1. *)
(***************************************************************************)
EXTENDS Integers, Sequences, FiniteSets, TLC

VARIABLES
    \* slug derivation applied to a title, and to its own output
    s_pc, s_title, s_slug, s_again,
    \* one call of generate_image
    a_pc, a_prompt, a_provider, a_out,
    \* runs of the fallback pipeline: each process's position and locals,
    \* docs/index.html, docs/articles, the calendar day, the runs each
    \* process may still start, and whether two runs ever overlapped
    proc, fs_index, fs_articles, day, runs_left, overlapped,
    \* one job on a worker: which task, its arguments, what the providers
    \* will do, the calls that reached a provider, and the job's outcome
    t_pc, t_task, t_params, t_world, t_calls, t_result,
    \* the gateway: the jobs the queue backend holds, the ids handed out,
    \* the last answer of GET /tasks/{id} and the number of polls
    jobs, issued, g_resp, g_polls

slugVars == <<s_pc, s_title, s_slug, s_again>>
altVars == <<a_pc, a_prompt, a_provider, a_out>>
mainVars == <<proc, fs_index, fs_articles, day, runs_left, overlapped>>
taskVars == <<t_pc, t_task, t_params, t_world, t_calls, t_result>>
gatewayVars == <<jobs, issued, g_resp, g_polls>>
vars == <<slugVars, altVars, mainVars, taskVars, gatewayVars>>

(***************************************************************************)
(* Bounds of the model.                                                    *)
(***************************************************************************)
\* longest free tail appended to a padded title
MaxTail == 2
\* how many characters beyond the alt-text limit a prompt may run
MaxOver == 4
\* runs of the fallback pipeline one process makes in a row
MaxRuns == 2
\* polls of GET /tasks/{id}
MaxPolls == 2

(***************************************************************************)
(* Program constants.                                                      *)
(***************************************************************************)
\* generate_html.py:126  slug.strip("-")[:50]
SlugMax == 50
\* creator.py:37  prompt[:125]
AltMax == 125

(***************************************************************************)
(* Python str primitives.                                                  *)
(***************************************************************************)
Min(a, b) == IF a < b THEN a ELSE b

\* s[i-1] of Python, 1-based here
CharAt(s, i) == SubSeq(s, i, i)

\* s[i-1:].startswith(pat)
StartsAt(s, i, pat) ==
    /\ i >= 1
    /\ i + Len(pat) - 1 <= Len(s)
    /\ SubSeq(s, i, i + Len(pat) - 1) = pat

\* pat in s
Contains(s, pat) == \E i \in 1..(Len(s) - Len(pat) + 1) : StartsAt(s, i, pat)

\* the positions at which pat occurs in s
Occurrences(s, pat) == { i \in 1..(Len(s) - Len(pat) + 1) : StartsAt(s, i, pat) }

\* s.find(pat) + 1, and 0 when pat does not occur
Find(s, pat) ==
    LET at == Occurrences(s, pat)
    IN IF at = {} THEN 0 ELSE CHOOSE i \in at : \A j \in at : i <= j

\* s.endswith(pat)
EndsWith(s, pat) == StartsAt(s, Len(s) - Len(pat) + 1, pat)

\* s.find(pat, i - 1) + 1, and 0 when pat does not occur from i on
FindFrom(s, i, pat) ==
    LET at == { j \in i..(Len(s) - Len(pat) + 1) : StartsAt(s, j, pat) }
    IN IF at = {} THEN 0 ELSE CHOOSE j \in at : \A k \in at : j <= k

RECURSIVE ReplaceFrom(_, _, _, _)
\* s.replace(old, new) for a non-empty old: every occurrence, found left to
\* right, each search starting behind the occurrence before it
ReplaceFrom(s, i, old, new) ==
    LET k == FindFrom(s, i, old)
    IN IF k = 0 THEN SubSeq(s, i, Len(s))
       ELSE SubSeq(s, i, k - 1) \o new \o ReplaceFrom(s, k + Len(old), old, new)

Replace(s, old, new) == ReplaceFrom(s, 1, old, new)

UpperLetters == "ABCDEFGHIJKLMNOPQRSTUVWXYZ"
LowerLetters == "abcdefghijklmnopqrstuvwxyz"
Digits == "0123456789"
\* letters outside ASCII that the model's alphabet holds (upper, lower)
UpperOther == "É"
LowerOther == "é"

\* the characters of a string, as a set
CharsOf(s) == { CharAt(s, i) : i \in 1..Len(s) }

UpperChars == CharsOf(UpperLetters \o UpperOther)
LowerChars == CharsOf(LowerLetters \o LowerOther)
DigitChars == CharsOf(Digits)

IsUpperChar(c) == c \in UpperChars
IsLowerChar(c) == c \in LowerChars
IsDigitChar(c) == c \in DigitChars

\* c.isalnum() for one character
IsAlnum(c) == IsUpperChar(c) \/ IsLowerChar(c) \/ IsDigitChar(c)

ToLower == [ c \in UpperChars |->
               CharAt(LowerLetters \o LowerOther, Find(UpperLetters \o UpperOther, c)) ]
ToUpper == [ c \in LowerChars |->
               CharAt(UpperLetters \o UpperOther, Find(LowerLetters \o LowerOther, c)) ]

\* c.lower() for one character
LowerChar(c) == IF IsUpperChar(c) THEN ToLower[c] ELSE c

\* c.upper() for one character
UpperChar(c) == IF IsLowerChar(c) THEN ToUpper[c] ELSE c

RECURSIVE Lower(_)
\* s.lower()
Lower(s) == IF s = "" THEN "" ELSE LowerChar(CharAt(s, 1)) \o Lower(SubSeq(s, 2, Len(s)))

RECURSIVE TitleFrom(_, _, _)
\* s.title(): a cased character is upper-cased when it starts a word and
\* lower-cased when it follows a cased character
TitleFrom(s, i, prevCased) ==
    IF i > Len(s) THEN ""
    ELSE LET c == CharAt(s, i)
             cased == IsUpperChar(c) \/ IsLowerChar(c)
         IN (IF prevCased THEN LowerChar(c) ELSE UpperChar(c))
            \o TitleFrom(s, i + 1, cased)

TitleCase(s) == TitleFrom(s, 1, FALSE)

RECURSIVE LStrip(_, _)
LStrip(s, c) == IF s # "" /\ CharAt(s, 1) = c THEN LStrip(SubSeq(s, 2, Len(s)), c) ELSE s

RECURSIVE RStrip(_, _)
RStrip(s, c) ==
    IF s # "" /\ CharAt(s, Len(s)) = c THEN RStrip(SubSeq(s, 1, Len(s) - 1), c) ELSE s

\* s.strip(c) for a one-character c
Strip(s, c) == RStrip(LStrip(s, c), c)

\* s[:n]
Prefix(s, n) == SubSeq(s, 1, Min(n, Len(s)))

RECURSIVE Repeat(_, _)
\* c * n
Repeat(c, n) ==
    IF n <= 0 THEN ""
    ELSE LET half == Repeat(c, n \div 2)
         IN half \o half \o (IF n % 2 = 1 THEN c ELSE "")

(***************************************************************************)
(* generate_html.py: slug derivation (main, lines 121-126).                *)
(***************************************************************************)
\* the eight characters main() replaces by a hyphen
Separators == <<" ", ",", ".", ":", "?", "!", ";", "\n">>

RECURSIVE ReplaceSeparators(_, _)
\* for ch in [...]: raw_slug = raw_slug.replace(ch, "-")
ReplaceSeparators(s, k) ==
    IF k > Len(Separators) THEN s
    ELSE ReplaceSeparators(Replace(s, Separators[k], "-"), k + 1)

\* c.isalnum() or c == "-"
SlugKeep(c) == IsAlnum(c) \/ c = "-"

RECURSIVE KeepSlugChars(_)
\* "".join(c for c in raw_slug if c.isalnum() or c == "-")
KeepSlugChars(s) ==
    IF s = "" THEN ""
    ELSE (IF SlugKeep(CharAt(s, 1)) THEN CharAt(s, 1) ELSE "")
         \o KeepSlugChars(SubSeq(s, 2, Len(s)))

\* slug.strip("-")[:50]
StripAndCut(s) == Prefix(Strip(s, "-"), SlugMax)

\* raw_slug = title.lower(); separators to "-"; keep alnum and "-";
\* strip hyphens, then cut to 50
Slugify(title) == StripAndCut(KeepSlugChars(ReplaceSeparators(Lower(title), 1)))

(***************************************************************************)
(* creator.py: generate_image.                                             *)
(***************************************************************************)
\* the ellipsis counted inside the limit: 122 characters and "..."
AltTextWithin(prompt) ==
    IF Len(prompt) > AltMax THEN Prefix(prompt, AltMax - 3) \o "..." ELSE prompt

\* (prompt[:125] + "...") if len(prompt) > 125 else prompt
AltText(prompt) ==
    IF Len(prompt) > AltMax THEN Prefix(prompt, AltMax) \o "..." ELSE prompt

\* generate_image(prompt, size): the provider call raises or yields a URL;
\* the result is the dict {prompt, image_url, alt_text}
GenerateImageResult(prompt, size, provider) ==
    IF provider.exc # ""
    THEN [exc |-> provider.exc, val |-> <<>>]
    ELSE [exc |-> "",
          val |-> [prompt |-> prompt, image_url |-> provider.val,
                   alt_text |-> AltText(prompt)]]

(***************************************************************************)
(* generate_html.py: the fallback pipeline's pure parts.                   *)
(***************************************************************************)
Whitespace == {" ", "\n", "\t"}

RECURSIVE LStripWs(_)
LStripWs(s) ==
    IF s # "" /\ CharAt(s, 1) \in Whitespace THEN LStripWs(SubSeq(s, 2, Len(s))) ELSE s

RECURSIVE RStripWs(_)
RStripWs(s) ==
    IF s # "" /\ CharAt(s, Len(s)) \in Whitespace
    THEN RStripWs(SubSeq(s, 1, Len(s) - 1)) ELSE s

\* s.strip()
StripWs(s) == RStripWs(LStripWs(s))

\* the topic fetch_trending_search falls back to
WorldNews == "World news"

\* fetch_trending_search() without its except clause's fallback topic
FetchTrendingSearchNoFallback(provider) == provider.val

\* fetch_trending_search(): the provider's first cell, or the fallback
\* topic on any exception
FetchTrendingSearch(provider) ==
    IF provider.exc # "" THEN WorldNews ELSE provider.val

\* generate_article(prompt) of the script: the provider's text, stripped;
\* a provider exception propagates
ScriptGenerateArticle(prompt, provider) ==
    IF provider.exc # ""
    THEN [exc |-> provider.exc, val |-> ""]
    ELSE [exc |-> "", val |-> StripWs(provider.val)]

DisabledNotice ==
    "Automatic article generation is disabled because the "
    \o "OPENAI_API_KEY environment variable is not set. "
    \o "Please add this secret in your repository settings to enable "
    \o "AI-generated news."

\* the article main() substitutes when generate_article raised
ErrorArticle(trend, exc) ==
    "News update for " \o trend \o "\n\n"
    \o "An error occurred while generating the article: " \o exc \o ".\n"
    \o "Please check your API configuration and try again."

\* the article main() substitutes when no API key is set
DisabledArticle(trend) == "News update for " \o trend \o "\n\n" \o DisabledNotice

\* main(), lines 96-115: the article text, and how often generate_article
\* was invoked; no exception leaves this block
ArticleText(key, trend, provider) ==
    IF key
    THEN LET r == ScriptGenerateArticle(trend, provider)
         IN [exc |-> "",
             val |-> IF r.exc # "" THEN ErrorArticle(trend, r.exc) ELSE r.val,
             calls |-> 1]
    ELSE [exc |-> "", val |-> DisabledArticle(trend), calls |-> 0]

RECURSIVE FirstLineFrom(_, _)
\* the first line of text[start-1:] (split on "\n") that has a non-blank
\* character; "" when there is none
FirstLineFrom(text, start) ==
    LET nl == FindFrom(text, start, "\n")
        ln == SubSeq(text, start, IF nl = 0 THEN Len(text) ELSE nl - 1)
    IN IF StripWs(ln) # "" THEN ln
       ELSE IF nl = 0 THEN ""
       ELSE FirstLineFrom(text, nl + 1)

\* lines = [ln for ln in article_text.split("\n") if ln.strip()]
\* title = lines[0] if lines else trend.title()
TitleOf(article_text, trend) ==
    LET first == FirstLineFrom(article_text, 1)
    IN IF first # "" THEN first ELSE TitleCase(trend)

\* f"{today}-{slug}.html"
ArticleFilename(today, slug) == today \o "-" \o slug \o ".html"

\* create_html(title, body, date)
CreateHtml(title, body, date) ==
    "<!DOCTYPE html>\n<html lang=\"en\">\n<head>\n    <meta charset=\"UTF-8\">\n"
    \o "    <title>" \o title \o "</title>\n"
    \o "    <meta name=\"description\" content=\"" \o title \o "\">\n"
    \o "</head>\n<body>\n"
    \o "    <h1>" \o title \o "</h1>\n"
    \o "    <p><em>" \o date \o "</em></p>\n"
    \o "    " \o Replace(body, "\n", "<br>") \o "\n"
    \o "</body>\n</html>\n"

\* the index entry of an article
LinkOf(article_filename, title, today) ==
    "<li><a href=\"articles/" \o article_filename \o "\">"
    \o title \o " (" \o today \o ")</a></li>\n"

\* the page main() starts from when docs/index.html does not exist
NewIndexPage ==
    "<!DOCTYPE html>\n"
    \o "<html><head><meta charset=\"UTF-8\"><title>Latest News</title></head><body>\n"
    \o "<h1>Latest News</h1>\n"
    \o "<ul>\n</ul>\n"
    \o "</body></html>\n"

\* a list container is synthesized in front of </body> when the page has none
WithList(index_content) ==
    IF ~Contains(index_content, "</ul>")
    THEN Replace(index_content, "</body>", "</ul></body>")
    ELSE index_content

\* the link put behind the list's opening tag instead
InsertLinkAtTop(index_content, link) == Replace(index_content, "<ul>\n", "<ul>\n" \o link)

\* index_content.replace("</ul>", f"{link}</ul>")
InsertLink(index_content, link) == Replace(index_content, "</ul>", link \o "</ul>")

\* the page rebuilt around the new link instead of updated
UpdateIndexFromScratch(index_content, link) ==
    IF ~Contains(index_content, link)
    THEN Replace(NewIndexPage, "</ul>", link \o "</ul>")
    ELSE index_content

\* main(), lines 155-158
UpdateIndex(index_content, link) ==
    IF ~Contains(index_content, link)
    THEN InsertLink(WithList(index_content), link)
    ELSE index_content

\* the calendar days the runs spread over
Dates == <<"2024-06-01", "2024-06-02">>

\* datetime.datetime.utcnow().date().isoformat() on the d-th day
DateOf(d) == Dates[d]

(***************************************************************************)
(* Python calls with keyword arguments.  A signature is the set of         *)
(* parameter names and the defaults of those that have one; a call binds   *)
(* each keyword to the parameter of that name.                             *)
(***************************************************************************)
None == "<None>"

\* the exception of the call itself: a keyword no parameter has, or a
\* parameter left without a value
BindError(sig, kwargs) ==
    IF (DOMAIN kwargs) \ sig.params # {} THEN "TypeError"
    ELSE IF sig.params \ (DOMAIN kwargs \cup DOMAIN sig.defaults) # {} THEN "TypeError"
    ELSE ""

\* the parameters' values inside the callee
Bind(sig, kwargs) ==
    [ a \in sig.params |-> IF a \in DOMAIN kwargs THEN kwargs[a] ELSE sig.defaults[a] ]

\* def fetch_trending_searches(country_code="US", category=None)
SigFetchTrendingSearches ==
    [params |-> {"country_code", "category"},
     defaults |-> [country_code |-> "US", category |-> None]]

\* def generate_article(topic, language="en")
SigGenerateArticle ==
    [params |-> {"topic", "language"}, defaults |-> [language |-> "en"]]

\* def generate_image(prompt, size="1024x1024")
SigGenerateImage ==
    [params |-> {"prompt", "size"}, defaults |-> [size |-> "1024x1024"]]

(***************************************************************************)
(* crawler.py, generator.py, publisher.py.                                 *)
(***************************************************************************)
\* fetch_trending_searches: one record for each title of the provider's
\* first column, stamped with the caller's country and category
FetchTrendingSearches(args, provider, now) ==
    IF provider.exc # ""
    THEN [exc |-> provider.exc, val |-> <<>>]
    ELSE [exc |-> "",
          val |-> [ i \in 1..Len(provider.val) |->
                      [country |-> args.country_code,
                       category |-> args.category,
                       title |-> provider.val[i],
                       traffic_value |-> None,
                       ts_collected |-> now] ]]

\* generate_article(topic, language) of the article generator
GenerateArticle(args, provider) ==
    IF provider.exc # ""
    THEN [exc |-> provider.exc, val |-> <<>>]
    ELSE [exc |-> "",
          val |-> [topic |-> args.topic, language |-> args.language,
                   content |-> provider.val]]

\* publish_article(article_data): raise_for_status(), then response.json()
PublishArticle(article_data, cms) ==
    IF cms.exc # ""
    THEN [exc |-> cms.exc, val |-> <<>>]
    ELSE [exc |-> "", val |-> cms.val]

(***************************************************************************)
(* celery_app.py: the two tasks.  A result carries the exception that left *)
(* the task, or its return value, and the calls that reached a callee.     *)
(***************************************************************************)
\* collect_trends_task(country, category, period)
CollectTrendsTask(params, world) ==
    LET kwargs == [country |-> params.country, category |-> params.category,
                   period |-> params.period]
        err == BindError(SigFetchTrendingSearches, kwargs)
    IN IF err # ""
       THEN [exc |-> err, val |-> <<>>, calls |-> <<>>]
       ELSE LET args == Bind(SigFetchTrendingSearches, kwargs)
                r == FetchTrendingSearches(args, world.trends, world.now)
            IN [exc |-> r.exc, val |-> r.val,
                calls |-> << [fn |-> "fetch_trending_searches", args |-> args] >>]

\* image_url, alt_text = generate_image(...): the names are bound to what
\* iterating the returned dict yields, its keys, and there must be two
UnpackPair(dict) ==
    IF Cardinality(DOMAIN dict) # 2
    THEN [exc |-> "ValueError", val |-> <<>>]
    ELSE [exc |-> "", val |-> dict]

\* generate_content_task(params), from the image step on
ContentFromImage(params, world, article_data, calls) ==
    LET kwargs == [prompt |-> params.title, size |-> "1024x1024"]
        err == BindError(SigGenerateImage, kwargs)
        iargs == Bind(SigGenerateImage, kwargs)
        img == GenerateImageResult(iargs.prompt, iargs.size, world.image)
        calls2 == Append(calls, [fn |-> "generate_image", args |-> iargs])
    IN IF err # "" THEN [exc |-> err, val |-> <<>>, calls |-> calls]
       ELSE IF img.exc # "" THEN [exc |-> img.exc, val |-> <<>>, calls |-> calls2]
       ELSE IF UnpackPair(img.val).exc # ""
            THEN [exc |-> UnpackPair(img.val).exc, val |-> <<>>, calls |-> calls2]
       ELSE LET payload == [image_url |-> img.val.image_url,
                            alt_text |-> img.val.alt_text,
                            country |-> params.country,
                            category |-> params.category] @@ article_data
                pub == PublishArticle(payload, world.cms)
            IN [exc |-> pub.exc, val |-> pub.val,
                calls |-> Append(calls2, [fn |-> "publish_article", args |-> payload])]

\* generate_content_task(params)
GenerateContentTask(params, world) ==
    LET kwargs == [trend_title |-> params.title, country |-> params.country,
                   category |-> params.category]
        err == BindError(SigGenerateArticle, kwargs)
    IN IF err # ""
       THEN [exc |-> err, val |-> <<>>, calls |-> <<>>]
       ELSE LET args == Bind(SigGenerateArticle, kwargs)
                art == GenerateArticle(args, world.text)
                calls == << [fn |-> "generate_article", args |-> args] >>
            IN IF art.exc # ""
               THEN [exc |-> art.exc, val |-> <<>>, calls |-> calls]
               ELSE ContentFromImage(params, world, art.val, calls)

(***************************************************************************)
(* server/main.py: the gateway.                                            *)
(***************************************************************************)
\* str(result.result): "None", the message of an exception, the repr of a
\* return value
Str(value) == IF value.kind = "none" THEN "None" ELSE value.text

\* get_task_status with the FAILURE branch answering like SUCCESS
StatusBodyNoError(job) ==
    IF job.state = "PENDING" THEN [state |-> job.state]
    ELSE IF job.state \in {"FAILURE", "SUCCESS"}
         THEN [state |-> job.state, result |-> job.result]
    ELSE [state |-> job.state, info |-> Str(job.result)]

\* get_task_status(task_id): the answer for the job the backend holds
StatusBody(job) ==
    IF job.state = "PENDING" THEN [state |-> job.state]
    ELSE IF job.state = "FAILURE" THEN [state |-> job.state, error |-> Str(job.result)]
    ELSE IF job.state = "SUCCESS" THEN [state |-> job.state, result |-> job.result]
    ELSE [state |-> job.state, info |-> Str(job.result)]

(***************************************************************************)
(* Inputs.                                                                 *)
(***************************************************************************)
TailChars == {"b", "B", "-", " ", "!", "é", "_"}

RECURSIVE StringsUpTo(_)
\* every string over TailChars of length at most k
StringsUpTo(k) ==
    IF k = 0 THEN {""}
    ELSE StringsUpTo(k - 1) \cup { t \o c : t \in StringsUpTo(k - 1), c \in TailChars }

\* titles: a run of letters of any length up to the slug limit, then a tail
Titles == { Repeat("a", n) \o t : n \in 0..SlugMax, t \in StringsUpTo(MaxTail) }

\* prompts around the alt-text limit, some already ending in dots
Prompts == { Repeat("p", n) \o t : n \in 0..(AltMax + MaxOver - 3), t \in {"", ".", "..."} }

ImageProviderOutcomes ==
    { [exc |-> "", val |-> "https://img.example/1.png"],
      [exc |-> "OpenAIError", val |-> ""] }

NoOut == [exc |-> "", val |-> <<>>]

\* what the trend provider does in one run
TrendOutcomes ==
    { [exc |-> "", val |-> "quantum computing"],
      [exc |-> "ResponseError", val |-> ""] }

\* what the text provider does in one run: a headline and a body, nothing
\* but blank space, or an exception
TextOutcomes ==
    { [exc |-> "", val |-> "\nScientists Announce Quantum Leap\n\nA first.\n"],
      [exc |-> "", val |-> " \n"],
      [exc |-> "RateLimitError", val |-> ""] }

\* index pages found on disk.  None; the page main() creates, and that page
\* with an older entry; pages of another make that main() can still insert
\* into: one with a body but no list, one with two lists; pages it cannot:
\* an empty file, a fragment with neither list nor body.
Absent == "<absent>"
OldEntry == LinkOf("2024-05-31-old-news.html", "Old news", "2024-05-31")
WellFormedPages ==
    { NewIndexPage,
      InsertLink(NewIndexPage, OldEntry) }
ForeignPages ==
    { "<html><body>\n<h1>Latest News</h1>\n</body></html>\n",
      "<html><body>\n<ul>\n</ul>\n<ul>\n</ul>\n</body></html>\n" }
BarePages ==
    { "",
      "<h1>Latest News</h1>\n" }

(***************************************************************************)
(* Slug derivation as a state machine: main() derives the slug of a title; *)
(* the derivation is then applied to the slug it produced.                 *)
(***************************************************************************)
SlugIdle == s_pc = "off" /\ s_title = "" /\ s_slug = "" /\ s_again = ""
AltIdle == a_pc = "off" /\ a_prompt = "" /\ a_provider = NoOut /\ a_out = NoOut
MainIdle ==
    /\ proc = <<>>
    /\ fs_index = Absent
    /\ fs_articles = {}
    /\ day = 1
    /\ runs_left = <<>>
    /\ overlapped = FALSE

TaskIdle ==
    /\ t_pc = "off"
    /\ t_task = ""
    /\ t_params = <<>>
    /\ t_world = <<>>
    /\ t_calls = <<>>
    /\ t_result = NoOut
GatewayIdle ==
    /\ jobs = <<>>
    /\ issued = {}
    /\ g_resp = <<>>
    /\ g_polls = 0

SlugInit ==
    /\ s_pc = "title"
    /\ s_title \in Titles
    /\ s_slug = ""
    /\ s_again = ""
    /\ AltIdle
    /\ MainIdle
    /\ TaskIdle
    /\ GatewayIdle

DeriveSlug ==
    /\ s_pc = "title"
    /\ s_slug' = Slugify(s_title)
    /\ s_pc' = "slug"
    /\ UNCHANGED <<s_title, s_again, altVars, mainVars, taskVars, gatewayVars>>

DeriveSlugAgain ==
    /\ s_pc = "slug"
    /\ s_again' = Slugify(s_slug)
    /\ s_pc' = "again"
    /\ UNCHANGED <<s_title, s_slug, altVars, mainVars, taskVars, gatewayVars>>

SlugNext == DeriveSlug \/ DeriveSlugAgain

SpecSlug == SlugInit /\ [][SlugNext]_vars

(***************************************************************************)
(* generate_image as a state machine.                                      *)
(***************************************************************************)
AltInit ==
    /\ a_pc = "call"
    /\ a_prompt \in Prompts
    /\ a_provider \in ImageProviderOutcomes
    /\ a_out = NoOut
    /\ SlugIdle
    /\ MainIdle
    /\ TaskIdle
    /\ GatewayIdle

GenerateImage ==
    /\ a_pc = "call"
    /\ a_out' = GenerateImageResult(a_prompt, "1024x1024", a_provider)
    /\ a_pc' = IF a_provider.exc # "" THEN "raised" ELSE "returned"
    /\ UNCHANGED <<a_prompt, a_provider, slugVars, mainVars, taskVars, gatewayVars>>

AltNext == GenerateImage

SpecAlt == AltInit /\ [][AltNext]_vars

(***************************************************************************)
(* generate_html.py: main() as a process.  A step ends at each access to   *)
(* the file system; what lies between two accesses is local to the run.    *)
(***************************************************************************)
Procs == {1, 2}

Running(p) == proc[p].pc \notin {"idle", "done", "raised"}

FreshRun ==
    [pc |-> "idle", key |-> FALSE, trend |-> "", trend_failed |-> FALSE,
     text_failed |-> FALSE, gen_calls |-> 0, article_text |-> "", title |-> "",
     slug |-> "", today |-> "", article_filename |-> "", link |-> "",
     read_content |-> "", index_content |-> "", written |-> <<>>,
     prev_link |-> "", same_runs |-> 0]

ArticlePath(article_filename) == "docs/articles/" \o article_filename
IndexPath == "docs/index.html"

\* with open(path, "w") as fh: fh.write(content)
WriteFile(files, path, content) ==
    { f \in files : f.path # path } \cup { [path |-> path, content |-> content] }

\* lines 88-128: fetch the trend, produce the article text, derive title,
\* slug and date.  OPENAI_API_KEY is read from the environment of the run.
StartRun(p) ==
    /\ proc[p].pc \in {"idle", "done"}
    /\ runs_left[p] > 0
    /\ \E key \in BOOLEAN, t \in TrendOutcomes, g \in TextOutcomes,
          d \in day..Min(day + 1, Len(Dates)) :
          LET trend == FetchTrendingSearch(t)
              art == ArticleText(key, trend, g)
              title == TitleOf(art.val, trend)
              slug == Slugify(title)
              today == DateOf(d)
          IN /\ key \/ g = CHOOSE x \in TextOutcomes : TRUE
             /\ day' = d
             /\ proc' = [proc EXCEPT ![p] =
                    [@ EXCEPT !.pc = IF art.exc # "" THEN "raised" ELSE "write_article",
                              !.key = key,
                              !.trend = trend,
                              !.trend_failed = t.exc # "",
                              !.text_failed = key /\ g.exc # "",
                              !.gen_calls = art.calls,
                              !.article_text = art.val,
                              !.title = title,
                              !.slug = slug,
                              !.today = today,
                              !.article_filename = ArticleFilename(today, slug),
                              !.link = "",
                              !.read_content = "",
                              !.index_content = "",
                              !.written = <<>>,
                              !.prev_link = proc[p].link]]
    /\ runs_left' = [runs_left EXCEPT ![p] = @ - 1]
    /\ overlapped' = (overlapped \/ \E q \in Procs \ {p} : Running(q))
    /\ UNCHANGED <<fs_index, fs_articles, slugVars, altVars, taskVars, gatewayVars>>

\* lines 130-137: os.makedirs, then the article file is written
WriteArticle(p) ==
    /\ proc[p].pc = "write_article"
    /\ LET r == proc[p]
           path == ArticlePath(r.article_filename)
       IN /\ fs_articles' = WriteFile(fs_articles, path,
                                      CreateHtml(r.title, r.article_text, r.today))
          /\ proc' = [proc EXCEPT ![p] =
                 [@ EXCEPT !.pc = "read_index", !.written = Append(@, path)]]
    /\ UNCHANGED <<fs_index, day, runs_left, overlapped, slugVars, altVars, taskVars, gatewayVars>>

\* lines 139-158: the index page is read, or started anew when the file
\* does not exist, and the link is inserted in the copy the run holds
ReadIndex(p) ==
    /\ proc[p].pc = "read_index"
    /\ LET r == proc[p]
           link == LinkOf(r.article_filename, r.title, r.today)
           content == IF fs_index # Absent THEN fs_index ELSE NewIndexPage
       IN proc' = [proc EXCEPT ![p] =
              [@ EXCEPT !.pc = "open_index",
                        !.link = link,
                        !.read_content = content,
                        !.index_content = UpdateIndex(content, link),
                        !.same_runs = IF link = r.prev_link THEN @ + 1 ELSE 1]]
    /\ UNCHANGED <<fs_index, fs_articles, day, runs_left, overlapped, slugVars, altVars, taskVars, gatewayVars>>

\* line 160: open(index_path, "w") creates or empties the file
OpenIndex(p) ==
    /\ proc[p].pc = "open_index"
    /\ fs_index' = ""
    /\ proc' = [proc EXCEPT ![p].pc = "write_index"]
    /\ UNCHANGED <<fs_articles, day, runs_left, overlapped, slugVars, altVars, taskVars, gatewayVars>>

\* line 161: the run's copy is written and the file closed
WriteIndex(p) ==
    /\ proc[p].pc = "write_index"
    /\ fs_index' = proc[p].index_content
    /\ proc' = [proc EXCEPT ![p] =
           [@ EXCEPT !.pc = "done", !.written = Append(@, IndexPath)]]
    /\ UNCHANGED <<fs_articles, day, runs_left, overlapped, slugVars, altVars, taskVars, gatewayVars>>

MainNext ==
    \E p \in Procs :
        StartRun(p) \/ WriteArticle(p) \/ ReadIndex(p) \/ OpenIndex(p) \/ WriteIndex(p)

\* one process makes its runs one after the other, over any index page
MainInit ==
    /\ proc = [p \in Procs |-> FreshRun]
    /\ fs_index \in {Absent} \cup WellFormedPages \cup ForeignPages \cup BarePages
    /\ fs_articles = {}
    /\ day = 1
    /\ runs_left = [p \in Procs |-> IF p = 1 THEN MaxRuns ELSE 0]
    /\ overlapped = FALSE
    /\ SlugIdle
    /\ AltIdle
    /\ TaskIdle
    /\ GatewayIdle

SpecMain == MainInit /\ [][MainNext]_vars

\* two processes make one run each, in any interleaving, over no index page
\* or one that main() can insert into
RaceInit ==
    /\ proc = [p \in Procs |-> FreshRun]
    /\ fs_index \in {Absent} \cup WellFormedPages \cup ForeignPages
    /\ fs_articles = {}
    /\ day = 1
    /\ runs_left = [p \in Procs |-> 1]
    /\ overlapped = FALSE
    /\ SlugIdle
    /\ AltIdle
    /\ TaskIdle
    /\ GatewayIdle

SpecRace == RaceInit /\ [][MainNext]_vars

(***************************************************************************)
(* celery_app.py: one job run by a worker.                                 *)
(***************************************************************************)
Countries == {"US", "FR"}
Categories == {"8", "all"}
Periods == {None, "7d"}
RequestTitles == {"Eclipse 2024", Repeat("e", AltMax + 1)}

TrendListOutcomes ==
    { [exc |-> "", val |-> <<"eclipse", "quantum computing">>],
      [exc |-> "ResponseError", val |-> <<>>] }
ArticleOutcomes ==
    { [exc |-> "", val |-> "Introduction ..."],
      [exc |-> "RateLimitError", val |-> ""] }
CmsOutcomes ==
    { [exc |-> "", val |-> [id |-> "17"]],
      [exc |-> "HTTPError", val |-> <<>>] }

Worlds ==
    [trends : TrendListOutcomes, text : ArticleOutcomes,
     image : ImageProviderOutcomes, cms : CmsOutcomes,
     now : {"2024-06-01T12:00:00"}]

TaskInit ==
    /\ t_pc = "received"
    /\ t_task \in {"tasks.collect_trends_task", "tasks.generate_content_task"}
    /\ t_params \in [country : Countries, category : Categories,
                     title : RequestTitles, period : Periods]
    /\ t_world \in Worlds
    /\ t_calls = <<>>
    /\ t_result = NoOut
    /\ SlugIdle
    /\ AltIdle
    /\ MainIdle
    /\ GatewayIdle

RunCollectTrends ==
    /\ t_pc = "received"
    /\ t_task = "tasks.collect_trends_task"
    /\ LET r == CollectTrendsTask(t_params, t_world)
       IN /\ t_result' = [exc |-> r.exc, val |-> r.val]
          /\ t_calls' = r.calls
          /\ t_pc' = IF r.exc # "" THEN "FAILURE" ELSE "SUCCESS"
    /\ UNCHANGED <<t_task, t_params, t_world, slugVars, altVars, mainVars, gatewayVars>>

RunGenerateContent ==
    /\ t_pc = "received"
    /\ t_task = "tasks.generate_content_task"
    /\ LET r == GenerateContentTask(t_params, t_world)
       IN /\ t_result' = [exc |-> r.exc, val |-> r.val]
          /\ t_calls' = r.calls
          /\ t_pc' = IF r.exc # "" THEN "FAILURE" ELSE "SUCCESS"
    /\ UNCHANGED <<t_task, t_params, t_world, slugVars, altVars, mainVars, gatewayVars>>

TaskNext == RunCollectTrends \/ RunGenerateContent

SpecTask == TaskInit /\ [][TaskNext]_vars

(***************************************************************************)
(* server/main.py: the gateway over the jobs of the queue backend.         *)
(***************************************************************************)
TaskIds == {"id-1", "id-2"}

NoValue == [kind |-> "none", text |-> ""]
JobStates == {"PENDING", "STARTED", "RETRY", "SUCCESS", "FAILURE"}

\* what the backend may hold for a job in each state
JobResults(state) ==
    CASE state = "PENDING" -> { NoValue }
      [] state = "STARTED" -> { NoValue, [kind |-> "dict", text |-> "{'pid': 7}"] }
      [] state = "RETRY" -> { [kind |-> "exc", text |-> "RateLimitError()"] }
      [] state = "SUCCESS" -> { [kind |-> "dict", text |-> "{'id': 17}"] }
      [] state = "FAILURE" ->
            { [kind |-> "exc", text |-> "502 Server Error: Bad Gateway"],
              [kind |-> "exc",
               text |-> "generate_article() got an unexpected keyword argument 'trend_title'"] }

GatewayInit ==
    /\ jobs = [id \in TaskIds |-> [state |-> "PENDING", result |-> NoValue]]
    /\ issued = {}
    /\ g_resp = [task_id |-> "", body |-> [status |-> "ok"]]
    /\ g_polls = 0
    /\ SlugIdle
    /\ AltIdle
    /\ MainIdle
    /\ TaskIdle

\* POST /generate: the task is sent and its id returned; the backend holds
\* nothing for it yet, which reads as PENDING
Generate ==
    /\ \E id \in TaskIds \ issued :
          /\ issued' = issued \cup {id}
          /\ g_resp' = [task_id |-> id, body |-> [task_id |-> id]]
    /\ UNCHANGED <<jobs, g_polls, slugVars, altVars, mainVars, taskVars>>

\* the queue backend records a worker's progress with a job
BackendRecords ==
    /\ \E id \in issued, state \in JobStates \ {"PENDING"} :
          /\ jobs[id].state \notin {"SUCCESS", "FAILURE"}
          /\ \E result \in JobResults(state) :
                jobs' = [jobs EXCEPT ![id] = [state |-> state, result |-> result]]
    /\ UNCHANGED <<issued, g_resp, g_polls, slugVars, altVars, mainVars, taskVars>>

\* GET /tasks/{task_id}
GetTaskStatus ==
    /\ g_polls < MaxPolls
    /\ \E id \in TaskIds :
          g_resp' = [task_id |-> id, body |-> StatusBody(jobs[id])]
    /\ g_polls' = g_polls + 1
    /\ UNCHANGED <<jobs, issued, slugVars, altVars, mainVars, taskVars>>

GatewayNext == Generate \/ BackendRecords \/ GetTaskStatus

SpecGateway == GatewayInit /\ [][GatewayNext]_vars

(***************************************************************************)
(* Claims about the tasks.                                                 *)
(***************************************************************************)
ProvidersSucceed == t_world.text.exc = "" /\ t_world.image.exc = "" /\ t_world.cms.exc = ""

\* C5: when the text provider, the image provider and the CMS succeed,
\* generate_content_task calls the article generator with the title, the
\* country and the category, then the image generator with the title and
\* "1024x1024", then publish_article once with the merged payload, and
\* returns the CMS response.
C5_GenerateContentPublishes ==
    (/\ t_task = "tasks.generate_content_task"
     /\ t_pc # "received"
     /\ ProvidersSucceed) =>
        /\ t_pc = "SUCCESS"
        /\ t_result.exc = ""
        /\ t_result.val = t_world.cms.val
        /\ Len(t_calls) = 3
        /\ t_calls[1].fn = "generate_article"
        /\ t_calls[2].fn = "generate_image"
        /\ t_calls[2].args = [prompt |-> t_params.title, size |-> "1024x1024"]
        /\ t_calls[3].fn = "publish_article"
        /\ t_calls[3].args.country = t_params.country
        /\ t_calls[3].args.category = t_params.category

\* C6: when the trend provider succeeds, collect_trends_task returns the
\* list of trend records of fetch_trending_searches, with or without a
\* period.
C6_CollectTrendsDelegates ==
    (/\ t_task = "tasks.collect_trends_task"
     /\ t_pc # "received"
     /\ t_world.trends.exc = "") =>
        /\ t_pc = "SUCCESS"
        /\ t_result.exc = ""
        /\ Len(t_calls) = 1
        /\ t_calls[1].fn = "fetch_trending_searches"
        /\ Len(t_result.val) = Len(t_world.trends.val)
        /\ \A i \in 1..Len(t_result.val) :
               /\ t_result.val[i].title = t_world.trends.val[i]
               /\ t_result.val[i].country = t_params.country
               /\ t_result.val[i].category = t_params.category

(***************************************************************************)
(* Claims about the gateway.                                               *)
(***************************************************************************)
\* C8: GET /tasks/{id} leaves the job as it is and answers {state} for
\* PENDING, {state, error} with the stringified exception for FAILURE,
\* {state, result} with the job's result for SUCCESS and {state, info} for
\* every other state.
C8_StatusShape ==
    [][ g_polls' = g_polls + 1 =>
          LET job == jobs[g_resp'.task_id]
              body == g_resp'.body
          IN /\ jobs' = jobs
             /\ body.state = job.state
             /\ job.state = "PENDING" => DOMAIN body = {"state"}
             /\ job.state = "FAILURE" =>
                    DOMAIN body = {"state", "error"} /\ body.error = job.result.text
             /\ job.state = "SUCCESS" =>
                    DOMAIN body = {"state", "result"} /\ body.result = job.result
             /\ job.state \in {"STARTED", "RETRY"} =>
                    /\ DOMAIN body = {"state", "info"}
                    /\ body.info = (IF job.result.kind = "none" THEN "None"
                                    ELSE job.result.text) ]_vars

\* the job that failed with the CMS's 502 has been polled
C8_Witness ==
    /\ g_polls > 0
    /\ g_resp.body = [state |-> "FAILURE", error |-> "502 Server Error: Bad Gateway"]

(***************************************************************************)
(* Claims about the slug.                                                  *)
(***************************************************************************)
SlugAlphabet == LowerLetters \o Digits \o "-"

SlugIsClean(slug) ==
    /\ slug = Lower(slug)
    /\ \A i \in 1..Len(slug) : Contains(SlugAlphabet, CharAt(slug, i))
    /\ ~StartsAt(slug, 1, "-")
    /\ ~EndsWith(slug, "-")
    /\ Len(slug) <= SlugMax

\* C1: for every title, the slug main() derives is lowercase, holds only
\* characters of [a-z0-9-], neither starts nor ends with a hyphen, and has
\* at most 50 characters.
C1_SlugIsClean == s_pc \in {"slug", "again"} => SlugIsClean(s_slug)

\* C2: deriving the slug of a slug returns it unchanged.
C2_SlugIdempotent == s_pc = "again" => s_again = s_slug

(***************************************************************************)
(* Claims about the index page.                                            *)
(***************************************************************************)
HoldsCopy(p) == proc[p].pc \in {"open_index", "write_index", "done"}

\* C3: after two runs in a row with the same link the index page holds that
\* link exactly once, whatever page the first run found, and a further run
\* with that link leaves the page as it was.
C3_IndexIdempotent ==
    \A p \in Procs :
        (proc[p].pc = "done" /\ ~overlapped /\ proc[p].same_runs >= 2) =>
            /\ Cardinality(Occurrences(fs_index, proc[p].link)) = 1
            /\ proc[p].same_runs >= 3 => fs_index = proc[p].read_content

\* the first list item behind the first opening tag of a list, 0 if none
FirstItem(page) ==
    IF Find(page, "<ul>") = 0 THEN 0 ELSE FindFrom(page, Find(page, "<ul>"), "<li>")

ArticleFileOf(p) ==
    { f \in fs_articles : f.path = ArticlePath(proc[p].article_filename) }

\* C7: whatever the trend provider and the text provider do and whether or
\* not the API key is set, a run raises nothing: it is at one of the four
\* steps behind its start until it is done, and is done having written one
\* article file and the index page; when the trend provider failed the
\* topic is "World news"; without a key generate_article is not invoked and
\* the article holds the notice.
C7_RunAlwaysSucceeds ==
    \A p \in Procs :
        /\ proc[p].pc \in {"idle", "write_article", "read_index", "open_index",
                           "write_index", "done"}
        /\ (proc[p].pc # "idle" /\ proc[p].trend_failed) => proc[p].trend = "World news"
        /\ (proc[p].pc # "idle" /\ ~proc[p].key) =>
               /\ proc[p].gen_calls = 0
               /\ Contains(proc[p].article_text, DisabledNotice)
        /\ proc[p].pc = "done" =>
               /\ proc[p].written = <<ArticlePath(proc[p].article_filename), IndexPath>>
               /\ ArticleFileOf(p) # {}
               /\ \A f \in ArticleFileOf(p) :
                      /\ Contains(f.content, "<h1>" \o proc[p].title \o "</h1>")
                      /\ ~proc[p].key => Contains(f.content, DisabledNotice)
               /\ fs_index # Absent

\* a run has ended although both providers failed
C7_Witness ==
    \E p \in Procs :
        /\ proc[p].pc = "done"
        /\ proc[p].trend_failed
        /\ proc[p].key
        /\ proc[p].text_failed
        /\ Contains(proc[p].article_text, "RateLimitError")

(***************************************************************************)
(* Claims about concurrent runs.                                           *)
(***************************************************************************)
AllDone == \A p \in Procs : proc[p].pc = "done"

C9_AltTextAsStated ==
    a_pc = "returned" =>
        IF Len(a_prompt) > AltMax
        THEN /\ Len(a_out.val.alt_text) = Min(Len(a_prompt), AltMax + 3)
             /\ EndsWith(a_out.val.alt_text, "...")
        ELSE a_out.val.alt_text = a_prompt

\* C9 amended: a truncated alt-text (len(P) > 125) is the first 125
\* characters of the prompt followed by "...", so its length is exactly
\* 125+3; otherwise it is the prompt.
C9_AltText ==
    a_pc = "returned" =>
        IF Len(a_prompt) > AltMax
        THEN /\ Len(a_out.val.alt_text) = AltMax + 3
             /\ EndsWith(a_out.val.alt_text, "...")
             /\ Prefix(a_out.val.alt_text, AltMax) = Prefix(a_prompt, AltMax)
        ELSE a_out.val.alt_text = a_prompt

\* a prompt one character over the limit has been given its alt-text
C9_Witness ==
    /\ a_pc = "returned"
    /\ Len(a_prompt) = AltMax + 1
    /\ Len(a_out.val.alt_text) > Len(a_prompt)

====
